---- MODULE Spec2Model ----
(***************************************************************************)
(* Model of src/main.py: the /loadknowledge endpoint (load_knowledge) and  *)
(* the knowledge corpus it reloads, together with the agent's knowledge    *)
(* search that reads the same corpus.                                      *)
(*                                                                         *)
(* load_knowledge is a coroutine: it suspends at each of its three awaits  *)
(* (knowledge.clear, add_content_async for the USA Swimming document,      *)
(* add_content_async for the recruiting document).  Each action below is   *)
(* the code that runs between two suspension points, so other requests     *)
(* interleave exactly where the event loop lets them.                      *)
(*                                                                         *)
(* The Knowledge object is a library object; what its calls do to the      *)
(* corpus follows the Knowledge Corpus Manager contract: clear removes all *)
(* chunks, an ingest appends all chunks of one document or raises without  *)
(* committing any, search returns the k best chunks.                       *)
(***************************************************************************)
EXTENDS Naturals, Sequences, FiniteSets

VARIABLES
    corpus,     \* the chunks held by `knowledge`, in insertion order
    pc,         \* per request slot: where its load_knowledge coroutine is suspended
    calls,      \* per request slot: the Knowledge calls its current/last invocation issued
    pre,        \* per request slot: the corpus when its current/last invocation started
    response,   \* per request slot: what its last invocation answered
    runs,       \* per request slot: invocations completed
    history,    \* completed invocations, oldest first: answer status and corpus left
    seen        \* the last knowledge search: its result and the reloads then in flight

vars == <<corpus, pc, calls, pre, response, runs, history, seen>>

----------------------------------------------------------------------------
(* Bounds of the model *)

MaxRuns == 2          \* invocations of /loadknowledge per request slot
MaxInitDocs == 2      \* documents already ingested when the model starts
ChunksPerDoc == 2     \* chunks one document is split into
SearchK == 2          \* k of a knowledge search

----------------------------------------------------------------------------
(* Documents and chunks *)

USA == "USA Swimming Motivational Time Standards 2024-2028"
COLLEGE == "College Swimming Recruiting Standards"
LEGACY == "previously ingested document"

FixedSources == {USA, COLLEGE}
AllDocs == {USA, COLLEGE, LEGACY}

ChunksOf(d) == [i \in 1..ChunksPerDoc |-> [doc |-> d, idx |-> i]]

RECURSIVE Flatten(_)
Flatten(docs) ==
    IF docs = <<>> THEN <<>> ELSE ChunksOf(Head(docs)) \o Flatten(Tail(docs))

DocSeqs == UNION {[1..n -> AllDocs] : n \in 0..MaxInitDocs}
InitCorpora == {Flatten(ds) : ds \in DocSeqs}

----------------------------------------------------------------------------
(* The Knowledge object's operations on the corpus *)

clear(c) == <<>>

ingest(c, d) == c \o ChunksOf(d)

search(c, k) == IF Len(c) <= k THEN c ELSE SubSeq(c, 1, k)

IngestionFailure == {"fetch error", "empty content", "embedding error"}
ClearFailure == {"store error"}

----------------------------------------------------------------------------
(* Responses of the endpoint *)

HTTP_OK == 200
HTTP_ERROR == 500

NoResponse ==
    [status |-> 0, body_status |-> "none", loaded_documents |-> <<>>, detail |-> <<>>]

SuccessBody ==
    [status |-> HTTP_OK,
     body_status |-> "success",
     loaded_documents |-> <<"USA Swimming Standards 2024-2028",
                            "College Recruiting Standards">>,
     detail |-> <<>>]

ErrorResponse(e) ==
    [status |-> HTTP_ERROR,
     body_status |-> "none",
     loaded_documents |-> <<>>,
     detail |-> <<"Error loading knowledge: ", e>>]

----------------------------------------------------------------------------
(* Request slots *)

Reloaders == {"r1", "r2"}

Init ==
    /\ corpus \in InitCorpora
    /\ pc = [r \in Reloaders |-> "idle"]
    /\ calls = [r \in Reloaders |-> <<>>]
    /\ pre = [r \in Reloaders |-> <<>>]
    /\ response = [r \in Reloaders |-> NoResponse]
    /\ runs = [r \in Reloaders |-> 0]
    /\ history = <<>>
    /\ seen = [result |-> <<>>, active |-> {}, pre |-> <<>>, searched |-> FALSE]

(* One Knowledge call of an invocation and whether it returned (ok) or raised. *)
Call(op, ok) == [op |-> op, ok |-> ok]

(* except Exception as e: raise HTTPException(status_code=500, ...) *)
RaiseHTTPException(r, e) ==
    /\ response' = [response EXCEPT ![r] = ErrorResponse(e)]
    /\ pc' = [pc EXCEPT ![r] = "idle"]
    /\ runs' = [runs EXCEPT ![r] = @ + 1]
    /\ history' = Append(history, [status |-> HTTP_ERROR, corpus |-> corpus'])

(* return {"status": "success", ...} *)
ReturnSuccess(r) ==
    /\ response' = [response EXCEPT ![r] = SuccessBody]
    /\ pc' = [pc EXCEPT ![r] = "idle"]
    /\ runs' = [runs EXCEPT ![r] = @ + 1]
    /\ history' = Append(history, [status |-> HTTP_OK, corpus |-> corpus'])

(* A reload that forgets to clear the corpus before ingesting. *)
Clear_Skipped(r) ==
    /\ pc[r] = "idle"
    /\ runs[r] < MaxRuns
    /\ pre' = [pre EXCEPT ![r] = corpus]
    /\ \/ /\ corpus' = corpus
          /\ calls' = [calls EXCEPT ![r] = <<Call("clear", TRUE)>>]
          /\ pc' = [pc EXCEPT ![r] = "ingest1"]
          /\ response' = [response EXCEPT ![r] = NoResponse]
          /\ UNCHANGED <<runs, history>>
       \/ /\ corpus' = corpus
          /\ calls' = [calls EXCEPT ![r] = <<Call("clear", FALSE)>>]
          /\ \E e \in ClearFailure : RaiseHTTPException(r, e)
    /\ UNCHANGED seen

(* A request arrives and runs up to the end of `await knowledge.clear()`. *)
Clear(r) ==
    /\ pc[r] = "idle"
    /\ runs[r] < MaxRuns
    /\ pre' = [pre EXCEPT ![r] = corpus]
    /\ \/ /\ corpus' = clear(corpus)
          /\ calls' = [calls EXCEPT ![r] = <<Call("clear", TRUE)>>]
          /\ pc' = [pc EXCEPT ![r] = "ingest1"]
          /\ response' = [response EXCEPT ![r] = NoResponse]
          /\ UNCHANGED <<runs, history>>
       \/ /\ corpus' = corpus
          /\ calls' = [calls EXCEPT ![r] = <<Call("clear", FALSE)>>]
          /\ \E e \in ClearFailure : RaiseHTTPException(r, e)
    /\ UNCHANGED seen

(* A first ingest whose failure is swallowed: the handler carries on. *)
Ingest1_SwallowsFailure(r) ==
    /\ pc[r] = "ingest1"
    /\ \/ /\ corpus' = ingest(corpus, USA)
          /\ calls' = [calls EXCEPT ![r] = Append(@, Call(USA, TRUE))]
          /\ pc' = [pc EXCEPT ![r] = "ingest2"]
          /\ UNCHANGED <<response, runs, history>>
       \/ /\ corpus' = corpus
          /\ calls' = [calls EXCEPT ![r] = Append(@, Call(USA, FALSE))]
          /\ pc' = [pc EXCEPT ![r] = "ingest2"]
          /\ UNCHANGED <<response, runs, history>>
    /\ UNCHANGED <<pre, seen>>

(* result1 = await knowledge.add_content_async(name="USA Swimming ...") *)
Ingest1(r) ==
    /\ pc[r] = "ingest1"
    /\ \/ /\ corpus' = ingest(corpus, USA)
          /\ calls' = [calls EXCEPT ![r] = Append(@, Call(USA, TRUE))]
          /\ pc' = [pc EXCEPT ![r] = "ingest2"]
          /\ UNCHANGED <<response, runs, history>>
       \/ /\ corpus' = corpus
          /\ calls' = [calls EXCEPT ![r] = Append(@, Call(USA, FALSE))]
          /\ \E e \in IngestionFailure : RaiseHTTPException(r, e)
    /\ UNCHANGED <<pre, seen>>

(* A second ingest that was pasted from the first and kept its document. *)
Ingest2_WrongSource(r) ==
    /\ pc[r] = "ingest2"
    /\ \/ /\ corpus' = ingest(corpus, USA)
          /\ calls' = [calls EXCEPT ![r] = Append(@, Call(USA, TRUE))]
          /\ ReturnSuccess(r)
       \/ /\ corpus' = corpus
          /\ calls' = [calls EXCEPT ![r] = Append(@, Call(USA, FALSE))]
          /\ \E e \in IngestionFailure : RaiseHTTPException(r, e)
    /\ UNCHANGED <<pre, seen>>

(* A second ingest whose failure undoes the first ingest. *)
Ingest2_RollsBack(r) ==
    /\ pc[r] = "ingest2"
    /\ \/ /\ corpus' = ingest(corpus, COLLEGE)
          /\ calls' = [calls EXCEPT ![r] = Append(@, Call(COLLEGE, TRUE))]
          /\ ReturnSuccess(r)
       \/ /\ corpus' = clear(corpus)
          /\ calls' = [calls EXCEPT ![r] = Append(@, Call(COLLEGE, FALSE))]
          /\ \E e \in IngestionFailure : RaiseHTTPException(r, e)
    /\ UNCHANGED <<pre, seen>>

(* result2 = await knowledge.add_content_async(name="College ..."), then return *)
Ingest2(r) ==
    /\ pc[r] = "ingest2"
    /\ \/ /\ corpus' = ingest(corpus, COLLEGE)
          /\ calls' = [calls EXCEPT ![r] = Append(@, Call(COLLEGE, TRUE))]
          /\ ReturnSuccess(r)
       \/ /\ corpus' = corpus
          /\ calls' = [calls EXCEPT ![r] = Append(@, Call(COLLEGE, FALSE))]
          /\ \E e \in IngestionFailure : RaiseHTTPException(r, e)
    /\ UNCHANGED <<pre, seen>>

(* The agent searches the knowledge base while answering a turn. *)
Search ==
    /\ seen' = [result |-> search(corpus, SearchK),
                active |-> {r \in Reloaders : pc[r] # "idle"},
                pre |-> pre,
                searched |-> TRUE]
    /\ UNCHANGED <<corpus, pc, calls, pre, response, runs, history>>

(* One client reloading (request slot r1), and the agent searching. *)
Next ==
    \/ Clear("r1")
    \/ Ingest1("r1")
    \/ Ingest2("r1")
    \/ Search

Spec == Init /\ [][Next]_vars

(* Two clients reloading concurrently. *)
NextConc ==
    \/ \E r \in Reloaders : Clear(r)
    \/ \E r \in Reloaders : Ingest1(r)
    \/ \E r \in Reloaders : Ingest2(r)

SpecConc == Init /\ [][NextConc]_vars

----------------------------------------------------------------------------
(* Helpers of the properties *)

(* The corpus one successful reload of an empty store leaves. *)
Reloaded == ChunksOf(USA) \o ChunksOf(COLLEGE)

DocsIn(c) == {c[i].doc : i \in 1..Len(c)}
NoDuplicates(c) == \A i, j \in 1..Len(c) : c[i] = c[j] => i = j
Ops(cs) == [i \in 1..Len(cs) |-> cs[i].op]
IsPrefix(s, t) == Len(s) <= Len(t) /\ \A i \in 1..Len(s) : s[i] = t[i]
Range(s) == {s[i] : i \in 1..Len(s)}

Order == <<"clear", USA, COLLEGE>>

(* The name the success body gives each source in loaded_documents. *)
LoadedName(d) ==
    IF d = USA THEN "USA Swimming Standards 2024-2028" ELSE "College Recruiting Standards"

Returned(r) == pc[r] = "idle" /\ response[r] # NoResponse
Succeeded(r) == Returned(r) /\ response[r].status = HTTP_OK
(* The invocation's first ingest returned and its second ingest raised. *)
SecondIngestFailed(r) ==
    /\ Returned(r)
    /\ Len(calls[r]) = 3
    /\ calls[r][2].ok
    /\ ~calls[r][3].ok

TypeOK ==
    /\ pc \in [Reloaders -> {"idle", "ingest1", "ingest2"}]
    /\ runs \in [Reloaders -> 0..MaxRuns]
    /\ \A i \in 1..Len(corpus) : corpus[i].doc \in AllDocs

----------------------------------------------------------------------------
(* C1: while a reload is in progress, a concurrent search never observes   *)
(* the cleared corpus when the corpus was non-empty before the reload: it  *)
(* sees the pre-reload corpus or the post-reload corpus.                   *)
C1_SearchNeverSeesCleared ==
    (seen.searched /\ "r1" \in seen.active /\ seen.pre["r1"] # <<>>)
        => /\ seen.result # <<>>
           /\ seen.result \in {search(seen.pre["r1"], SearchK), search(Reloaded, SearchK)}

(* C2: after a reload that runs alone and returns success, the corpus      *)
(* holds exactly the chunks of the two fixed sources, none of what was     *)
(* there before the clear, and the calls were clear, USA Swimming,         *)
(* recruiting, in that order.                                              *)
C2_ReloadLeavesExactlyTwoSources ==
    Succeeded("r1") =>
        /\ corpus = Reloaded
        /\ DocsIn(corpus) = FixedSources
        /\ Ops(calls["r1"]) = Order

C2_Witness ==
    /\ Succeeded("r1")
    /\ LEGACY \in DocsIn(pre["r1"])
    /\ USA \in DocsIn(pre["r1"])

C4_ReloadIdempotent ==
    \A i \in 1..Len(history) :
        (i > 1 /\ history[i - 1].status = HTTP_OK /\ history[i].status = HTTP_OK)
            => /\ history[i].corpus = history[i - 1].corpus
               /\ NoDuplicates(history[i].corpus)

C4_Witness ==
    /\ Len(history) = 2
    /\ history[1].status = HTTP_OK
    /\ history[2].status = HTTP_OK

(* C9: the calls run in the order clear, first ingest, second ingest; a    *)
(* call that raises is the invocation's last, the answer is then status    *)
(* 500 without the success body, and a failed first ingest leaves the      *)
(* corpus cleared.                                                         *)
C9_FailureAbortsRest ==
    LET cs == calls["r1"] IN
    /\ IsPrefix(Ops(cs), Order)
    /\ \A i \in 1..Len(cs) : i < Len(cs) => cs[i].ok
    /\ (Len(cs) > 0 /\ ~cs[Len(cs)].ok) =>
          /\ pc["r1"] = "idle"
          /\ response["r1"].status = HTTP_ERROR
          /\ response["r1"].body_status # "success"
    /\ (Len(cs) = 2 /\ ~cs[2].ok) => corpus = <<>>

C9_Witness ==
    /\ Len(calls["r1"]) = 2
    /\ ~calls["r1"][2].ok
    /\ pre["r1"] # <<>>
    /\ response["r1"].status = HTTP_ERROR

(* C10: once two concurrent reloads have both returned success, the corpus *)
(* holds each of the two fixed sources exactly once, as after one reload.  *)
C10_ConcurrentReloadsLeaveOneCopy ==
    (\A r \in Reloaders : Succeeded(r)) => corpus = Reloaded

====
